---- MODULE Spec2Model ----
(***************************************************************************)
(* ATS Resume Analyzer (src/main.py): the analysis pipeline                *)
(*   upload -> text extraction -> field extraction -> scoring ->           *)
(*   suggestions                                                           *)
(* and the /api/analyze request handler with its temporary files.          *)
(*                                                                         *)
(* Strings are sequences of one-character strings, so that lower(),        *)
(* title(), endswith() and the substring test `in` are computed.  Python   *)
(* floats are IEEE-754 doubles: a float is [m |-> limbs, e |-> exponent],  *)
(* the value m * 2^e, m a significand of at most Precision bits written    *)
(* in 20-bit limbs, and every float operation rounds to nearest, ties to   *)
(* even.                                                                   *)
(*                                                                         *)
(* The name, email and phone fields of a resume profile are not modelled:  *)
(* nothing in the pipeline reads them after parse_resume stores them.      *)
(***************************************************************************)
EXTENDS Integers, Sequences, FiniteSets, TLC

VARIABLES
    fs,           \* the uploads/ directory: [dir: path -> inode, data: inode -> bytes]
    resume_data,  \* parse_resume's result (or NoValue)
    jd_data,      \* parse_job_description's result (or NoValue)
    results,      \* compare_resume_jd's result (or NoValue)
    pc,           \* position of the pipeline run
    hash_seed,    \* the process's string-hash seed: fixes the iteration order of sets
    req           \* the analyze_resume requests: request id -> record

vars == <<fs, resume_data, jd_data, results, pc, hash_seed, req>>

NoValue == [none |-> TRUE]

\* ------------------------------------------------------------------------
\* Bounds of the model

\* SpecScore: sizes of the skill sets, keyword set and resume text handed to
\* compare_resume_jd.
MaxResumeSkills == 29
MaxJobSkills == 50
MaxJobKeywords == 2
MaxTextWords == 1
\* Number of further set-iteration orders (hash seeds) considered.
MaxHashSeed == 1

\* ------------------------------------------------------------------------
\* Characters and strings

LowerCase == <<"a","b","c","d","e","f","g","h","i","j","k","l","m",
               "n","o","p","q","r","s","t","u","v","w","x","y","z">>
UpperCase == <<"A","B","C","D","E","F","G","H","I","J","K","L","M",
               "N","O","P","Q","R","S","T","U","V","W","X","Y","Z">>

ToLower == [c \in {UpperCase[i] : i \in 1..26} |->
              LowerCase[CHOOSE i \in 1..26 : UpperCase[i] = c]]
ToUpper == [c \in {LowerCase[i] : i \in 1..26} |->
              UpperCase[CHOOSE i \in 1..26 : LowerCase[i] = c]]

IsCased(c) == c \in DOMAIN ToLower \/ c \in DOMAIN ToUpper

CharLower(c) == IF c \in DOMAIN ToLower THEN ToLower[c] ELSE c
CharUpper(c) == IF c \in DOMAIN ToUpper THEN ToUpper[c] ELSE c

\* str.lower()
str_lower(s) == [i \in 1..Len(s) |-> CharLower(s[i])]

\* str.title(): a cased character is upper case when it starts a word (follows
\* an uncased character or starts the string) and lower case otherwise.
str_title(s) ==
    [i \in 1..Len(s) |->
        IF i = 1 \/ ~IsCased(s[i-1]) THEN CharUpper(s[i]) ELSE CharLower(s[i])]

\* `sub in s`: substring containment.
str_contains(sub, s) ==
    \E k \in 0..(Len(s) - Len(sub)) :
        \A j \in 1..Len(sub) : s[k + j] = sub[j]

\* s.endswith(suffix)
str_endswith(s, suffix) ==
    /\ Len(suffix) <= Len(s)
    /\ \A j \in 1..Len(suffix) : s[Len(s) - Len(suffix) + j] = suffix[j]

skill_keywords ==
    << <<"p", "y", "t", "h", "o", "n">>,
       <<"j", "a", "v", "a">>,
       <<"j", "a", "v", "a", "s", "c", "r", "i", "p", "t">>,
       <<"r", "e", "a", "c", "t">>,
       <<"a", "n", "g", "u", "l", "a", "r">>,
       <<"v", "u", "e">>,
       <<"n", "o", "d", "e", "j", "s">>,
       <<"h", "t", "m", "l">>,
       <<"c", "s", "s">>,
       <<"s", "q", "l">>,
       <<"m", "o", "n", "g", "o", "d", "b">>,
       <<"p", "o", "s", "t", "g", "r", "e", "s", "q", "l">>,
       <<"m", "y", "s", "q", "l">>,
       <<"d", "o", "c", "k", "e", "r">>,
       <<"k", "u", "b", "e", "r", "n", "e", "t", "e", "s">>,
       <<"a", "w", "s">>,
       <<"a", "z", "u", "r", "e">>,
       <<"g", "i", "t">>,
       <<"l", "i", "n", "u", "x">>,
       <<"s", "p", "r", "i", "n", "g">>,
       <<"d", "j", "a", "n", "g", "o">>,
       <<"f", "l", "a", "s", "k">>,
       <<"f", "a", "s", "t", "a", "p", "i">>,
       <<"r", "e", "s", "t", " ", "a", "p", "i">>,
       <<"a", "p", "i">>,
       <<"m", "i", "c", "r", "o", "s", "e", "r", "v", "i", "c", "e", "s">>,
       <<"a", "g", "i", "l", "e">>,
       <<"m", "a", "c", "h", "i", "n", "e", " ", "l", "e", "a", "r", "n", "i", "n", "g">>,
       <<"a", "i">>,
       <<"d", "a", "t", "a", " ", "s", "c", "i", "e", "n", "c", "e">>,
       <<"p", "a", "n", "d", "a", "s">>,
       <<"n", "u", "m", "p", "y">>,
       <<"t", "e", "n", "s", "o", "r", "f", "l", "o", "w">>,
       <<"p", "y", "t", "o", "r", "c", "h">>,
       <<"s", "c", "i", "k", "i", "t", "-", "l", "e", "a", "r", "n">>,
       <<"e", "x", "c", "e", "l">>,
       <<"p", "o", "w", "e", "r", "b", "i">>,
       <<"t", "a", "b", "l", "e", "a", "u">>,
       <<"s", "p", "a", "r", "k">>,
       <<"h", "a", "d", "o", "o", "p">>,
       <<"s", "c", "a", "l", "a">>,
       <<"r">>,
       <<"m", "a", "t", "l", "a", "b">>,
       <<"c", "+", "+">>,
       <<"c", "#">>,
       <<"p", "h", "p">>,
       <<"r", "u", "b", "y">>,
       <<"g", "o">>,
       <<"r", "u", "s", "t">>,
       <<"s", "w", "i", "f", "t">>,
       <<"k", "o", "t", "l", "i", "n">>,
       <<"f", "l", "u", "t", "t", "e", "r">>,
       <<"r", "e", "a", "c", "t", " ", "n", "a", "t", "i", "v", "e">> >>

keywords ==
    << <<"e", "x", "p", "e", "r", "i", "e", "n", "c", "e">>,
       <<"d", "e", "v", "e", "l", "o", "p">>,
       <<"d", "e", "s", "i", "g", "n">>,
       <<"i", "m", "p", "l", "e", "m", "e", "n", "t">>,
       <<"m", "a", "n", "a", "g", "e">>,
       <<"l", "e", "a", "d">>,
       <<"c", "r", "e", "a", "t", "e">>,
       <<"b", "u", "i", "l", "d">>,
       <<"m", "a", "i", "n", "t", "a", "i", "n">>,
       <<"o", "p", "t", "i", "m", "i", "z", "e">>,
       <<"a", "n", "a", "l", "y", "z", "e">>,
       <<"c", "o", "l", "l", "a", "b", "o", "r", "a", "t", "e">>,
       <<"t", "e", "a", "m", "w", "o", "r", "k">>,
       <<"l", "e", "a", "d", "e", "r", "s", "h", "i", "p">>,
       <<"c", "o", "m", "m", "u", "n", "i", "c", "a", "t", "i", "o", "n">>,
       <<"p", "r", "o", "b", "l", "e", "m", " ", "s", "o", "l", "v", "i", "n", "g">>,
       <<"p", "r", "o", "j", "e", "c", "t", " ", "m", "a", "n", "a", "g", "e", "m", "e", "n", "t">>,
       <<"a", "g", "i", "l", "e">>,
       <<"s", "c", "r", "u", "m">>,
       <<"d", "e", "v", "o", "p", "s">>,
       <<"c", "i", "/", "c", "d">> >>

\* ------------------------------------------------------------------------
\* Python floats (IEEE-754 binary64, round to nearest, ties to even)
\*
\* A float is [m |-> significand, e |-> exponent], the value m * 2^e.  A
\* significand is a natural number written in limbs of 20 bits, most
\* significant first and without leading zero limbs, so that every
\* intermediate value of its arithmetic fits a machine integer.

\* Bits of a double's significand.
Precision == 53

LimbBase == 2^20

\* A limb sequence without its leading zero limbs.
StripLimbs(l) ==
    IF \A i \in 1..Len(l) : l[i] = 0 THEN <<>>
    ELSE SubSeq(l, CHOOSE i \in 1..Len(l) :
                      l[i] # 0 /\ \A j \in 1..(i-1) : l[j] = 0, Len(l))

\* The limbs of a natural number below 2^30.
NatLimbs(n) == StripLimbs(<<n \div LimbBase, n % LimbBase>>)

\* The number a sequence of at most two limbs denotes (below 2^30).
LimbsNat(l) ==
    IF l = <<>> THEN 0
    ELSE IF Len(l) = 1 THEN l[1]
    ELSE l[Len(l) - 1] * LimbBase + l[Len(l)]

\* The number of bits of a natural number below 2^30.
BitLen(x) == CHOOSE k \in 0..30 : x < 2^k /\ (k = 0 \/ x >= 2^(k - 1))

LimbsBitLen(l) == IF l = <<>> THEN 0 ELSE 20 * (Len(l) - 1) + BitLen(l[1])

RECURSIVE MulCarry(_, _, _, _)
\* Limbs 1..i of l times k, plus carry.
MulCarry(l, k, i, carry) ==
    IF i = 0 THEN <<carry>>
    ELSE LET p == l[i] * k + carry
         IN  Append(MulCarry(l, k, i - 1, p \div LimbBase), p % LimbBase)

\* l * k for a natural k up to 2^10
MulLimbs(l, k) == StripLimbs(MulCarry(l, k, Len(l), 0))

RECURSIVE AddCarry(_, _, _, _)
\* Limbs 1..i of x plus limbs 1..i of y (equal lengths), plus carry.
AddCarry(x, y, i, carry) ==
    IF i = 0 THEN <<carry>>
    ELSE LET p == x[i] + y[i] + carry
         IN  Append(AddCarry(x, y, i - 1, p \div LimbBase), p % LimbBase)

\* x + y
AddLimbs(x, y) ==
    LET n  == IF Len(x) > Len(y) THEN Len(x) ELSE Len(y)
        px == [i \in 1..(n - Len(x)) |-> 0] \o x
        py == [i \in 1..(n - Len(y)) |-> 0] \o y
    IN  StripLimbs(AddCarry(px, py, n, 0))

RECURSIVE DivStep(_, _, _, _)
\* Long division of limbs i.. of l by n, the remainder r coming from the
\* limbs before i: [q |-> quotient limbs, r |-> remainder].
DivStep(l, n, i, r) ==
    IF i > Len(l) THEN [q |-> <<>>, r |-> r]
    ELSE LET v    == r * LimbBase + l[i]
             rest == DivStep(l, n, i + 1, v % n)
         IN  [q |-> <<v \div n>> \o rest.q, r |-> rest.r]

\* l divided by a natural n from 1 to 2^10: quotient and remainder
DivLimbs(l, n) ==
    LET d == DivStep(l, n, 1, 0) IN [q |-> StripLimbs(d.q), r |-> d.r]

\* l * 2^s
ShiftLeft(l, s) ==
    LET part  == s % 20
        first == IF part > 10 THEN 10 ELSE part
    IN  MulLimbs(MulLimbs(l, 2^first), 2^(part - first))
            \o (IF l = <<>> THEN <<>> ELSE [i \in 1..(s \div 20) |-> 0])

\* floor(l / 2^s), and whether a nonzero remainder was dropped
ShiftRight(l, s) ==
    LET whole == IF s \div 20 > Len(l) THEN Len(l) ELSE s \div 20
        part  == s % 20
        first == IF part > 10 THEN 10 ELSE part
        a     == SubSeq(l, 1, Len(l) - whole)
        b     == DivLimbs(a, 2^first)
        c     == DivLimbs(b.q, 2^(part - first))
    IN  [q      |-> IF s \div 20 > Len(l) THEN <<>> ELSE c.q,
         sticky |-> \/ \E i \in (Len(l) - whole + 1)..Len(l) : l[i] # 0
                    \/ b.r # 0
                    \/ c.r # 0
                    \/ (s \div 20 > Len(l) /\ l # <<>>)]

IsOdd(l) == l # <<>> /\ l[Len(l)] % 2 = 1

\* The double nearest to l * 2^e (+ a nonzero amount below l's last bit when
\* sticky): keep the Precision leading bits, round half to even.
RoundFloat(l, e, sticky) ==
    IF LimbsBitLen(l) <= Precision THEN [m |-> l, e |-> e]
    ELSE LET s    == LimbsBitLen(l) - Precision
             a    == ShiftRight(l, s - 1)
             keep == DivLimbs(a.q, 2).q
             up   == IsOdd(a.q) /\ (sticky \/ a.sticky \/ IsOdd(keep))
         IN  [m |-> IF up THEN AddLimbs(keep, <<1>>) ELSE keep, e |-> e + s]

\* float(n) for a natural n below 2^30 (exact)
float_of_int(n) == [m |-> NatLimbs(n), e |-> 0]

\* a / b: Python's true division of naturals (a below 2^30, b from 1 to
\* 2^10), correctly rounded.  The quotient is computed to 80 fractional
\* bits, far beyond Precision.
float_div(a, b) ==
    LET d == DivLimbs(ShiftLeft(NatLimbs(a), 80), b)
    IN  RoundFloat(d.q, -80, d.r # 0)

\* f * n (n a natural up to 2^10, converted exactly to float)
float_mul_int(f, n) == RoundFloat(MulLimbs(f.m, n), f.e, FALSE)

\* f + g
float_add(f, g) ==
    LET e == IF f.e < g.e THEN f.e ELSE g.e
    IN  RoundFloat(AddLimbs(ShiftLeft(f.m, f.e - e), ShiftLeft(g.m, g.e - e)), e, FALSE)

\* int(f): truncation toward zero (f >= 0, the result below 2^30)
float_to_int(f) ==
    IF f.e >= 0 THEN LimbsNat(ShiftLeft(f.m, f.e))
    ELSE LimbsNat(ShiftRight(f.m, -f.e).q)

\* The float literals 0.7 and 0.3: the doubles nearest to 7/10 and 3/10.
SkillWeight == float_div(7, 10)
KeywordWeight == float_div(3, 10)

\* ------------------------------------------------------------------------
\* The uploads/ directory
\*
\* A file system is [dir |-> path -> inode, data |-> inode -> bytes].  A file
\* opened for writing keeps its inode while the handler awaits the upload's
\* bytes; a write lands in the inode at the handle's offset 0.

EmptyFs == [dir |-> <<>>, data |-> <<>>]

UploadsDir == <<"u", "p", "l", "o", "a", "d", "s", "/">>

FsExists(f, path) == path \in DOMAIN f.dir

FsLinked(f, ino) == \E p \in DOMAIN f.dir : f.dir[p] = ino

\* The bytes of the file at path.
FsRead(f, path) == f.data[f.dir[path]]

\* Whether open(path, "wb") can create or truncate the file: the file's
\* directory must be uploads/ itself, so the name after "uploads/" is not
\* empty (that path is the directory) and names no subdirectory.
FsCanOpenWrite(path) ==
    LET name == SubSeq(path, Len(UploadsDir) + 1, Len(path))
    IN  name # <<>> /\ \A i \in 1..Len(name) : name[i] # "/"

\* open(path, "wb"): truncates the existing file or creates one with inode ino.
FsOpenWrite(f, path, ino) ==
    IF FsExists(f, path)
    THEN [f EXCEPT !.data[f.dir[path]] = <<>>]
    ELSE [dir |-> f.dir @@ (path :> ino), data |-> f.data @@ (ino :> <<>>)]

\* The inode the handle of open(path, "wb") refers to.
FsHandle(f, path, ino) == IF FsExists(f, path) THEN f.dir[path] ELSE ino

\* handle.write(bytes) at offset 0; a file unlinked meanwhile is written out
\* of sight.
FsWrite(f, ino, bytes) ==
    IF FsLinked(f, ino)
    THEN [f EXCEPT !.data[ino] = bytes \o SubSeq(@, Len(bytes) + 1, Len(@))]
    ELSE f

\* os.remove(path) of an existing file
FsRemove(f, path) ==
    LET ino == f.dir[path]
    IN  [dir  |-> [p \in DOMAIN f.dir \ {path} |-> f.dir[p]],
         data |-> [i \in DOMAIN f.data \ {ino} |-> f.data[i]]]

\* ------------------------------------------------------------------------
\* Text extraction
\*
\* The document libraries are outside the repository.  A PDF is the marker
\* "%PDF" followed by the text of its pages, separated by form feeds; a DOCX
\* is the marker "PK" followed by its paragraphs, separated by newlines; the
\* readers raise on anything else.  "<FF>" is a byte that is not valid UTF-8.

PdfMagic == "%PDF"
DocxMagic == "PK"
InvalidByte == "<FF>"

ErrorReadingPdf == <<"E", "r", "r", "o", "r", " ", "r", "e", "a", "d", "i", "n", "g", " ", "P", "D", "F">>
ErrorReadingDocx == <<"E", "r", "r", "o", "r", " ", "r", "e", "a", "d", "i", "n", "g", " ", "D", "O", "C", "X">>
ErrorReadingTxt == <<"E", "r", "r", "o", "r", " ", "r", "e", "a", "d", "i", "n", "g", " ", "T", "X", "T">>
UnsupportedFormat == <<"U", "n", "s", "u", "p", "p", "o", "r", "t", "e", "d", " ", "f", "i", "l", "e", " ", "f", "o", "r", "m", "a", "t">>

\* s.split(sep) for a one-character separator
Split(s, sep) ==
    LET cuts   == {0, Len(s) + 1} \cup {i \in 1..Len(s) : s[i] = sep}
        cut(k) == CHOOSE c \in cuts : Cardinality({d \in cuts : d < c}) = k
    IN  [k \in 1..(Cardinality(cuts) - 1) |-> SubSeq(s, cut(k - 1) + 1, cut(k) - 1)]

RECURSIVE ConcatLines(_, _)
\* text += part + "\n" for the parts from the i-th on
ConcatLines(parts, i) ==
    IF i > Len(parts) THEN <<>>
    ELSE parts[i] \o <<"\n">> \o ConcatLines(parts, i + 1)

extract_text_from_pdf(f, file_path) ==
    IF ~FsExists(f, file_path) THEN ErrorReadingPdf
    ELSE LET bytes == FsRead(f, file_path)
         IN  IF bytes # <<>> /\ bytes[1] = PdfMagic
             THEN ConcatLines(Split(Tail(bytes), "\f"), 1)
             ELSE ErrorReadingPdf

extract_text_from_docx(f, file_path) ==
    IF ~FsExists(f, file_path) THEN ErrorReadingDocx
    ELSE LET bytes == FsRead(f, file_path)
         IN  IF bytes # <<>> /\ bytes[1] = DocxMagic
             THEN ConcatLines(Split(Tail(bytes), "\n"), 1)
             ELSE ErrorReadingDocx

extract_text_from_txt(f, file_path) ==
    IF ~FsExists(f, file_path) THEN ErrorReadingTxt
    ELSE LET bytes == FsRead(f, file_path)
         IN  IF \A i \in 1..Len(bytes) : bytes[i] # InvalidByte
             THEN bytes
             ELSE ErrorReadingTxt

DotPdf == <<".", "p", "d", "f">>
DotDocx == <<".", "d", "o", "c", "x">>
DotTxt == <<".", "t", "x", "t">>

\* ------------------------------------------------------------------------
\* Field extraction

Range(s) == {s[i] : i \in 1..Len(s)}

\* extract_skills without the lowercasing of the text: a case-sensitive scan.
extract_skills_case_sensitive(text) ==
    {str_title(skill_keywords[i]) :
        i \in {j \in 1..Len(skill_keywords) : str_contains(skill_keywords[j], text)}}

\* extract_skills: the vocabulary entries contained in the lowercased text,
\* title-cased, as a set.
extract_skills(text) ==
    LET text_lower == str_lower(text)
    IN  {str_title(skill_keywords[i]) :
            i \in {j \in 1..Len(skill_keywords) :
                      str_contains(skill_keywords[j], text_lower)}}

\* extract_keywords: the same scan over the professional keywords.
extract_keywords(text) ==
    LET text_lower == str_lower(text)
    IN  {str_title(keywords[i]) :
            i \in {j \in 1..Len(keywords) :
                      str_contains(keywords[j], text_lower)}}

\* ------------------------------------------------------------------------
\* Parsing

parse_resume(f, file_path) ==
    LET text == IF str_endswith(str_lower(file_path), DotPdf)
                THEN extract_text_from_pdf(f, file_path)
                ELSE IF str_endswith(str_lower(file_path), DotDocx)
                THEN extract_text_from_docx(f, file_path)
                ELSE UnsupportedFormat
    IN  [text |-> text, skills |-> extract_skills(text)]

parse_job_description(f, file_path) ==
    LET text == IF str_endswith(str_lower(file_path), DotPdf)
                THEN extract_text_from_pdf(f, file_path)
                ELSE IF str_endswith(str_lower(file_path), DotDocx)
                THEN extract_text_from_docx(f, file_path)
                ELSE IF str_endswith(str_lower(file_path), DotTxt)
                THEN extract_text_from_txt(f, file_path)
                ELSE UnsupportedFormat
    IN  [text |-> text,
         required_skills |-> extract_skills(text),
         keywords |-> extract_keywords(text)]

\* ------------------------------------------------------------------------
\* Suggestions

MissingTip == "Add these missing skills: "
KeywordTip == "Include more keywords from the job description"
FocusTip == "Focus on highlighting relevant technical skills"
TerminologyTip == "Use more industry-specific terminology"
ActionVerbsTip == "Use action verbs like 'developed', 'implemented', 'managed'"
AchievementsTip == "Include quantifiable achievements with numbers and percentages"
FormattingTip == "Ensure your resume is ATS-friendly with simple formatting"
SkillsSectionTip == "Add a skills section with relevant technical skills"

\* A suggestion: its fixed text and, for the missing-skills one, the skills
\* joined after it.
Tip(t) == [tip |-> t, skills |-> <<>>]

StaticTips ==
    <<Tip(ActionVerbsTip), Tip(AchievementsTip), Tip(FormattingTip), Tip(SkillsSectionTip)>>

\* list(s) for a set s of lowercase skills: the order a set of strings is
\* iterated in depends on the process's hash seed.  Seed k iterates in
\* vocabulary order rotated by k places.
IterationOrder ==
    [p \in 1..Len(skill_keywords) |->
        skill_keywords[((p - 1 + hash_seed) % Len(skill_keywords)) + 1]]

set_to_list(s) ==
    LET member(w) == w \in s IN SelectSeq(IterationOrder, member)

\* lst[:n]
Take(lst, n) == SubSeq(lst, 1, IF Len(lst) < n THEN Len(lst) ELSE n)

\* generate_suggestions with the list cut to five entries.
generate_suggestions_five(skill_match, keyword_coverage, resume_skills, jd_skills) ==
    LET missing_skills == Take(set_to_list(jd_skills \ resume_skills), 3)
        s1 == IF skill_match < 70 /\ missing_skills # <<>>
              THEN <<[tip |-> MissingTip, skills |-> missing_skills]>> ELSE <<>>
        s2 == IF keyword_coverage < 60 THEN <<Tip(KeywordTip)>> ELSE <<>>
        s3 == IF skill_match < 50 THEN <<Tip(FocusTip)>> ELSE <<>>
        s4 == IF keyword_coverage < 50 THEN <<Tip(TerminologyTip)>> ELSE <<>>
    IN  Take(s1 \o s2 \o s3 \o s4 \o StaticTips, 5)

\* generate_suggestions without the final cut.
generate_suggestions_uncut(skill_match, keyword_coverage, resume_skills, jd_skills) ==
    LET missing_skills == Take(set_to_list(jd_skills \ resume_skills), 3)
        s1 == IF skill_match < 70 /\ missing_skills # <<>>
              THEN <<[tip |-> MissingTip, skills |-> missing_skills]>> ELSE <<>>
        s2 == IF keyword_coverage < 60 THEN <<Tip(KeywordTip)>> ELSE <<>>
        s3 == IF skill_match < 50 THEN <<Tip(FocusTip)>> ELSE <<>>
        s4 == IF keyword_coverage < 50 THEN <<Tip(TerminologyTip)>> ELSE <<>>
    IN  s1 \o s2 \o s3 \o s4 \o StaticTips

generate_suggestions(skill_match, keyword_coverage, resume_skills, jd_skills) ==
    LET missing_skills == Take(set_to_list(jd_skills \ resume_skills), 3)
        s1 == IF skill_match < 70 /\ missing_skills # <<>>
              THEN <<[tip |-> MissingTip, skills |-> missing_skills]>> ELSE <<>>
        s2 == IF keyword_coverage < 60 THEN <<Tip(KeywordTip)>> ELSE <<>>
        s3 == IF skill_match < 50 THEN <<Tip(FocusTip)>> ELSE <<>>
        s4 == IF keyword_coverage < 50 THEN <<Tip(TerminologyTip)>> ELSE <<>>
    IN  Take(s1 \o s2 \o s3 \o s4 \o StaticTips, 6)

\* ------------------------------------------------------------------------
\* Scoring

\* SkillMatch dividing the resume's skill count, not the matching skills'.
SkillMatchOfResume(resume_skills, jd_skills) ==
    IF jd_skills # {}
    THEN float_to_int(float_mul_int(
             float_div(Cardinality(resume_skills), Cardinality(jd_skills)), 100))
    ELSE 100

\* int((len(matching_skills) / len(jd_skills)) * 100), or 100 without required skills
SkillMatch(resume_skills, jd_skills) ==
    IF jd_skills # {}
    THEN LET matching_skills == resume_skills \cap jd_skills
         IN  float_to_int(float_mul_int(
                 float_div(Cardinality(matching_skills), Cardinality(jd_skills)), 100))
    ELSE 100

\* int((keyword_matches / len(jd_keywords)) * 100) if jd_keywords else 100
KeywordCoverage(resume_text_lower, jd_keywords) ==
    LET keyword_matches ==
            Cardinality({k \in jd_keywords : str_contains(k, resume_text_lower)})
    IN  IF jd_keywords # {}
        THEN float_to_int(float_mul_int(
                 float_div(keyword_matches, Cardinality(jd_keywords)), 100))
        ELSE 100

\* int((skill_match * 0.7) + (keyword_coverage * 0.3))
OverallScore(skill_match, keyword_coverage) ==
    float_to_int(float_add(float_mul_int(SkillWeight, skill_match),
                           float_mul_int(KeywordWeight, keyword_coverage)))

compare_resume_jd(resume, jd) ==
    LET resume_skills    == {str_lower(s) : s \in resume.skills}
        jd_skills        == {str_lower(s) : s \in jd.required_skills}
        jd_keywords      == {str_lower(k) : k \in jd.keywords}
        skill_match      == SkillMatch(resume_skills, jd_skills)
        keyword_coverage == KeywordCoverage(str_lower(resume.text), jd_keywords)
    IN  [overall_score    |-> OverallScore(skill_match, keyword_coverage),
         skill_match      |-> skill_match,
         keyword_coverage |-> keyword_coverage,
         suggestions      |-> generate_suggestions(skill_match, keyword_coverage,
                                                   resume_skills, jd_skills)]

\* ------------------------------------------------------------------------
\* The /api/analyze handler
\*
\* A request is a record: its two uploads ([filename, bytes]), the handler's
\* position pc, its locals, and its response.  The handler runs on one event
\* loop: it can be suspended only at `await resume.read()` and at
\* `await job_description.read()`, each inside the `with open(...)` of the
\* file being saved, so it runs in three steps.

Request(id, resume, job_description) ==
    [id |-> id, resume |-> resume, job_description |-> job_description,
     pc |-> "start", f |-> NoValue,
     resume_data |-> NoValue, jd_data |-> NoValue, response |-> NoValue]

resume_path(q) == UploadsDir \o q.resume.filename
jd_path(q) == UploadsDir \o q.job_description.filename

\* except Exception as e: raise HTTPException(status_code=500, detail=str(e))
Raise500(q, e) ==
    [q EXCEPT !.pc = "done", !.f = NoValue,
              !.response = [status_code |-> 500, detail |-> e]]

\* From the call to the first await: open(resume_path, "wb").
analyze_begin(f, q) ==
    IF ~FsCanOpenWrite(resume_path(q))
    THEN [fs |-> f, rq |-> Raise500(q, "open resume_path")]
    ELSE [fs |-> FsOpenWrite(f, resume_path(q), <<q.id, "resume">>),
          rq |-> [q EXCEPT !.pc = "await resume.read",
                           !.f = FsHandle(f, resume_path(q), <<q.id, "resume">>)]]

\* From the first await to the second: write and close the resume file,
\* open(jd_path, "wb").
analyze_save_resume(f, q) ==
    LET f1 == FsWrite(f, q.f, q.resume.bytes)
    IN  IF ~FsCanOpenWrite(jd_path(q))
        THEN [fs |-> f1, rq |-> Raise500(q, "open jd_path")]
        ELSE [fs |-> FsOpenWrite(f1, jd_path(q), <<q.id, "jd">>),
              rq |-> [q EXCEPT !.pc = "await job_description.read",
                               !.f = FsHandle(f1, jd_path(q), <<q.id, "jd">>)]]

\* From the second await to the end: write and close the job description
\* file, parse both files, compare, remove both files, return the results.
analyze_finish(f, q) ==
    LET f1  == FsWrite(f, q.f, q.job_description.bytes)
        rd  == parse_resume(f1, resume_path(q))
        jd  == parse_job_description(f1, jd_path(q))
        q1  == [q EXCEPT !.resume_data = rd, !.jd_data = jd]
        res == compare_resume_jd(rd, jd)
    IN  IF ~FsExists(f1, resume_path(q))
        THEN [fs |-> f1, rq |-> Raise500(q1, "remove resume_path")]
        ELSE LET f2 == FsRemove(f1, resume_path(q))
             IN  IF ~FsExists(f2, jd_path(q))
                 THEN [fs |-> f2, rq |-> Raise500(q1, "remove jd_path")]
                 ELSE [fs |-> FsRemove(f2, jd_path(q)),
                       rq |-> [q1 EXCEPT !.pc = "done", !.f = NoValue,
                                         !.response = [status_code |-> 200,
                                                       body |-> res]]]

AnalyzeBegin(r) ==
    /\ req[r].pc = "start"
    /\ LET out == analyze_begin(fs, req[r])
       IN  fs' = out.fs /\ req' = [req EXCEPT ![r] = out.rq]
    /\ UNCHANGED <<resume_data, jd_data, results, pc, hash_seed>>

AnalyzeSaveResume(r) ==
    /\ req[r].pc = "await resume.read"
    /\ LET out == analyze_save_resume(fs, req[r])
       IN  fs' = out.fs /\ req' = [req EXCEPT ![r] = out.rq]
    /\ UNCHANGED <<resume_data, jd_data, results, pc, hash_seed>>

AnalyzeFinish(r) ==
    /\ req[r].pc = "await job_description.read"
    /\ LET out == analyze_finish(fs, req[r])
       IN  fs' = out.fs /\ req' = [req EXCEPT ![r] = out.rq]
    /\ UNCHANGED <<resume_data, jd_data, results, pc, hash_seed>>

Begin == \E r \in DOMAIN req : AnalyzeBegin(r)

SaveResume == \E r \in DOMAIN req : AnalyzeSaveResume(r)

Finish == \E r \in DOMAIN req : AnalyzeFinish(r)

AnalyzeNext == Begin \/ SaveResume \/ Finish

\* ------------------------------------------------------------------------
\* SpecScore: compare_resume_jd applied to profiles and requirements drawn
\* from the vocabularies.

\* The first n entries of a vocabulary, title-cased as the extractors return them.
TitledPrefix(vocab, n) == {str_title(vocab[i]) : i \in 1..n}

RECURSIVE KeywordText(_)
\* A text made of the first n professional keywords, one word each.
KeywordText(n) ==
    IF n = 0 THEN <<>>
    ELSE IF n = 1 THEN keywords[1]
    ELSE KeywordText(n - 1) \o <<" ">> \o keywords[n]

NoRequests == <<>>

ScoreInit ==
    /\ \E nr \in 0..MaxResumeSkills, nt \in 0..MaxTextWords :
          resume_data = [text |-> KeywordText(nt),
                         skills |-> TitledPrefix(skill_keywords, nr)]
    /\ \E nj \in 0..MaxJobSkills, nk \in 0..MaxJobKeywords :
          jd_data = [required_skills |-> TitledPrefix(skill_keywords, nj),
                     keywords |-> TitledPrefix(keywords, nk)]
    /\ hash_seed \in 0..MaxHashSeed
    /\ results = NoValue
    /\ pc = "compare"
    /\ fs = EmptyFs
    /\ req = NoRequests

ScoreCompare ==
    /\ pc = "compare"
    /\ results' = compare_resume_jd(resume_data, jd_data)
    /\ pc' = "done"
    /\ UNCHANGED <<fs, resume_data, jd_data, hash_seed, req>>

ScoreNext == ScoreCompare

SpecScore == ScoreInit /\ [][ScoreNext]_vars
\* ------------------------------------------------------------------------
\* Spec: one analyze request, run alone, on uploads of every kind (valid and
\* corrupt documents, supported and unsupported extensions, a name in a
\* missing subdirectory, both uploads under one name).

SampleText == <<"B", "u", "i", "l", "t", " ", "A", "P", "I", "s", " ", "u", "s", "i", "n", "g", " ", "P", "y", "t", "h", "o", "n", " ", "a", "n", "d", " ", "R", "e", "a", "c", "t", " ", "w", "i", "t", "h", " ", "D", "o", "c", "k", "e", "r">>

ResumeUploads ==
    { [filename |-> <<"c", "v", ".", "p", "d", "f">>,
       bytes |-> <<PdfMagic, "J", "a", "v", "a", " ", "d", "e", "v", "e", "l", "o", "p", "e", "r", "\f", "T", "e", "a", "m", " ", "l", "e", "a", "d", ",", " ", "a", "g", "i", "l", "e">>],
      [filename |-> <<"C", "V", ".", "P", "D", "F">>,
       bytes |-> <<PdfMagic, "g", "o">>],
      [filename |-> <<"c", "v", ".", "p", "d", "f">>,
       bytes |-> <<"g", "a", "r", "b", "a", "g", "e">>],
      [filename |-> <<"c", "v", ".", "d", "o", "c", "x">>,
       bytes |-> <<DocxMagic, "S", "Q", "L", "\n", "G", "i", "t">>],
      [filename |-> <<"c", "v", ".", "t", "x", "t">>,
       bytes |-> <<"P", "y", "t", "h", "o", "n">>],
      [filename |-> <<"x", "/", "c", "v", ".", "p", "d", "f">>,
       bytes |-> <<PdfMagic, "g", "o">>] }

JobUploads ==
    { [filename |-> <<"j", "d", ".", "t", "x", "t">>,
       bytes |-> SampleText],
      [filename |-> <<"j", "d", ".", "t", "x", "t">>,
       bytes |-> <<>>],
      [filename |-> <<"j", "d", ".", "t", "x", "t">>,
       bytes |-> <<"S", "Q", "L", InvalidByte>>],
      [filename |-> <<"j", "d", ".", "p", "d", "f">>,
       bytes |-> <<PdfMagic, "J", "a", "v", "a", ",", " ", "S", "Q", "L", ";", " ", "a", "g", "i", "l", "e", " ", "t", "e", "a", "m">>],
      [filename |-> <<"j", "d", ".", "d", "o", "c">>,
       bytes |-> <<"P", "y", "t", "h", "o", "n">>],
      [filename |-> <<"c", "v", ".", "p", "d", "f">>,
       bytes |-> <<PdfMagic, "g", "o">>],
      [filename |-> <<"x", "/", "j", "d", ".", "t", "x", "t">>,
       bytes |-> <<"g", "o">>] }

Init ==
    /\ \E resume \in ResumeUploads, job_description \in JobUploads :
          req = (1 :> Request(1, resume, job_description))
    /\ fs = EmptyFs
    /\ hash_seed \in 0..MaxHashSeed
    /\ resume_data = NoValue
    /\ jd_data = NoValue
    /\ results = NoValue
    /\ pc = "idle"

Spec == Init /\ [][AnalyzeNext]_vars

\* ------------------------------------------------------------------------
\* SpecConcurrent: two analyze requests on one event loop, their steps
\* interleaved, with uploads that may share file names.

ConcurrentResumes ==
    { [filename |-> <<"a", ".", "p", "d", "f">>,
       bytes |-> <<PdfMagic, "s", "q", "l">>],
      [filename |-> <<"a", ".", "p", "d", "f">>,
       bytes |-> <<PdfMagic, "g", "o">>],
      [filename |-> <<"c", ".", "p", "d", "f">>,
       bytes |-> <<PdfMagic, "g", "o">>] }

ConcurrentJobs ==
    { [filename |-> <<"b", ".", "t", "x", "t">>,
       bytes |-> <<"s", "q", "l">>],
      [filename |-> <<"d", ".", "t", "x", "t">>,
       bytes |-> <<"g", "o">>] }

ConcurrentInit ==
    /\ \E r1 \in ConcurrentResumes, j1 \in ConcurrentJobs,
          r2 \in ConcurrentResumes, j2 \in ConcurrentJobs :
          req = (1 :> Request(1, r1, j1)) @@ (2 :> Request(2, r2, j2))
    /\ fs = EmptyFs
    /\ hash_seed \in 0..MaxHashSeed
    /\ resume_data = NoValue
    /\ jd_data = NoValue
    /\ results = NoValue
    /\ pc = "idle"

SpecConcurrent == ConcurrentInit /\ [][AnalyzeNext]_vars


\* ========================================================================
\* Properties

Done == pc = "done"

\* The skill and keyword sets as compare_resume_jd compares them.
LoweredResumeSkills == {str_lower(s) : s \in resume_data.skills}
LoweredJobSkills == {str_lower(s) : s \in jd_data.required_skills}

\* C1: whatever profile and requirements compare_resume_jd is given, its
\* skill_match, keyword_coverage and overall_score are integers in 0..100.
ScoresInRange ==
    Done => /\ results.skill_match \in 0..100
            /\ results.keyword_coverage \in 0..100
            /\ results.overall_score \in 0..100

\* C1 witness: compare_resume_jd has scored the empty profile against the
\* empty requirements.
ScoredEmptyInputs ==
    /\ Done
    /\ resume_data.skills = {} /\ resume_data.text = <<>>
    /\ jd_data.required_skills = {} /\ jd_data.keywords = {}
    /\ results.overall_score = 100

\* C2 (as claimed): overall_score is the integer floor of
\* (7*skill_match + 3*keyword_coverage)/10.
OverallScoreIsExactFloor ==
    Done => results.overall_score =
                (7 * results.skill_match + 3 * results.keyword_coverage) \div 10

\* C3 (as claimed): skill_match is 100 without required skills and otherwise
\* floor(100 * |R \cap J| / |J|).
SkillMatchIsExactFloor ==
    Done => results.skill_match =
                IF LoweredJobSkills = {} THEN 100
                ELSE (100 * Cardinality(LoweredResumeSkills \cap LoweredJobSkills))
                         \div Cardinality(LoweredJobSkills)

\* The conditional rules of generate_suggestions that fire on the scores and
\* skill sets of the run.
RulesFired ==
    (IF results.skill_match < 70 /\ LoweredJobSkills \ LoweredResumeSkills # {}
     THEN 1 ELSE 0)
    + (IF results.keyword_coverage < 60 THEN 1 ELSE 0)
    + (IF results.skill_match < 50 THEN 1 ELSE 0)
    + (IF results.keyword_coverage < 50 THEN 1 ELSE 0)

Suggested(t) == \E i \in 1..Len(results.suggestions) : results.suggestions[i] = Tip(t)

\* C4 (as claimed): the returned list contains all four static tips.
StaticTipsAlwaysPresent ==
    Done => /\ Suggested(ActionVerbsTip) /\ Suggested(AchievementsTip)
            /\ Suggested(FormattingTip) /\ Suggested(SkillsSectionTip)

\* C4 (amended): the action-verbs and achievements tips are always in the
\* returned list; the formatting tip is in it unless all four conditional
\* rules fired, and the skills-section tip exactly when at most two fired.
StaticTipsKeptUpToCut ==
    Done => /\ Suggested(ActionVerbsTip) /\ Suggested(AchievementsTip)
            /\ Suggested(FormattingTip) <=> RulesFired <= 3
            /\ Suggested(SkillsSectionTip) <=> RulesFired <= 2

\* C4 witness: all four conditional rules fired and the list was cut.
AllRulesFiredAndCut ==
    /\ Done
    /\ RulesFired = 4
    /\ Len(results.suggestions) = 6
    /\ results.suggestions[6] = Tip(AchievementsTip)

\* C5: the returned list has at least 4 and at most 6 entries.
SuggestionCountBounded ==
    Done => Len(results.suggestions) \in 4..6

\* C5 witness: three conditional rules fired, seven tips were collected and
\* six returned.
SevenTipsCutToSix ==
    /\ Done
    /\ RulesFired = 3
    /\ Len(results.suggestions) = 6

\* ------------------------------------------------------------------------
\* The analyze request

Finished(r) == req[r].pc = "done"

Sentinels == {UnsupportedFormat, ErrorReadingPdf, ErrorReadingDocx, ErrorReadingTxt}

\* C6 (as claimed): when the request has finished, with a ScoreReport or
\* with the 500 error, no file it wrote is left under uploads/.
NoTempFileLeft ==
    \A r \in DOMAIN req : Finished(r) => DOMAIN fs.dir = {}

\* C7 (as claimed): a report built from a resume or job description whose
\* text is a sentinel has an overall_score below 50.
BadFileScoresLow ==
    \A r \in DOMAIN req :
        (/\ Finished(r)
         /\ req[r].response.status_code = 200
         /\ (req[r].resume_data.text \in Sentinels \/ req[r].jd_data.text \in Sentinels))
        => req[r].response.body.overall_score < 50

\* Whether the request parsed a job description whose text is SampleText.
ParsedSample(r) ==
    /\ Finished(r)
    /\ req[r].response.status_code = 200
    /\ req[r].jd_data.text = SampleText

\* C8 (as claimed): extract_skills on "Built APIs using Python and React
\* with Docker" returns exactly {"Python", "React", "Docker", "Api"}.
SampleSkillsAreFour ==
    \A r \in DOMAIN req :
        ParsedSample(r) =>
            req[r].jd_data.required_skills =
                {<<"P", "y", "t", "h", "o", "n">>, <<"R", "e", "a", "c", "t">>, <<"D", "o", "c", "k", "e", "r">>, <<"A", "p", "i">>}

\* C8 (amended): it returns exactly {"Python", "React", "Docker", "Api", "R"}:
\* the vocabulary entry "r" is contained in the text as well.
SampleSkillsAreFourAndR ==
    \A r \in DOMAIN req :
        ParsedSample(r) =>
            req[r].jd_data.required_skills =
                {<<"P", "y", "t", "h", "o", "n">>, <<"R", "e", "a", "c", "t">>, <<"D", "o", "c", "k", "e", "r">>, <<"A", "p", "i">>, <<"R">>}

\* C8 witness: a request has parsed the sample text as its job description.
SampleParsed == \E r \in DOMAIN req : ParsedSample(r)

\* The request's outcome when it runs alone on an empty uploads/ directory.
AloneResponse(q) ==
    LET a == analyze_begin(EmptyFs, Request(q.id, q.resume, q.job_description))
        b == IF a.rq.pc = "done" THEN a ELSE analyze_save_resume(a.fs, a.rq)
        c == IF b.rq.pc = "done" THEN b ELSE analyze_finish(b.fs, b.rq)
    IN  c.rq.response

\* C9 (as claimed): under every interleaving of two requests, each request
\* returns the outcome it returns when run alone.
RequestsIsolated ==
    \A r \in DOMAIN req : Finished(r) => req[r].response = AloneResponse(req[r])

\* C10 (as claimed): a request run alone whose two uploads were opened and
\* written returns the ScoreReport with status 200 and leaves no temporary
\* file, whatever the two file names.
SavedUploadsSucceed ==
    \A r \in DOMAIN req :
        (/\ DOMAIN req = {r}
         /\ Finished(r)
         /\ FsCanOpenWrite(resume_path(req[r]))
         /\ FsCanOpenWrite(jd_path(req[r])))
        => /\ req[r].response.status_code = 200
           /\ DOMAIN fs.dir = {}

====
